---- MODULE Spec2Model ----
(***************************************************************************)
(* Model of the generation pipeline of the FastAd front end:               *)
(*   - the Generator page (prompt form, debounced auto-optimisation,       *)
(*     onSubmit: quota check, dispatch, content insert, usage update),     *)
(*   - AIService (optimizePrompt, generateImage, optimizeTextPrompt,       *)
(*     generateVideo),                                                     *)
(*   - the record store tables 'subscriptions' and 'content_items',        *)
(*   - ProtectedRoute under the App routes, the BrandKit page's editor     *)
(*     and the Library page's selection and delete.                        *)
(* Each Generator view (a browser tab) is an index of Tabs.  JavaScript    *)
(* null / undefined / '' are all falsy and are written  ""  here; the      *)
(* created_at timestamp and the Date.now() suffixes are left out.          *)
(***************************************************************************)
EXTENDS Naturals, Sequences, FiniteSets, TLC

(* ------------------------------ bounds --------------------------------- *)
MaxLimit == 2        \* largest usage_limit of a subscription row
MaxEdits == 2        \* form edits per view
MaxFlows == 2        \* submits per view
MaxKits == 2         \* rows the table 'brand_kits' ever gets
MaxItems == 3        \* content items the Library has loaded
MaxPending == 2      \* store calls of one page in flight at a time

(* --------------------------- program constants ------------------------- *)
DebounceMinLength == 10      \* watchPrompt.length > 10
FormMinLength == 10          \* minLength: { value: 10 }

Tabs == {1, 2}

Types == {"image", "video", "banner", "social"}
Styles == {"realistic", "surreal", "anime", "futuristic"}
Platforms == {"facebook", "instagram", "youtube", "google_ads", "twitter", "linkedin"}

\* the values the modelled user picks in the form
Prompts == {"", "ten chars!", "Summer sale poster", "Tech startup banner"}
Selections ==
  { [type |-> "image",  platform |-> "instagram", style |-> "realistic"],
    [type |-> "video",  platform |-> "youtube",   style |-> "anime"],
    [type |-> "banner", platform |-> "instagram", style |-> "anime"],
    [type |-> "social", platform |-> "youtube",   style |-> "realistic"] }

UserId == "u1"
ImageUrl == "https://img.example/generated.png"
VideoUrl == "https://example.com/video-placeholder.mp4"

Falsy(s) == s = ""
OrElse(a, b) == IF Falsy(a) THEN b ELSE a      \* JavaScript  a || b  on strings

(* ------------------------------ AIService ------------------------------ *)
stylePrompts(style) ==
  CASE style = "realistic" -> "photorealistic, high detail, professional photography"
    [] style = "surreal" -> "surreal, dreamlike, imaginative, artistic"
    [] style = "anime" -> "anime style, Japanese animation, vibrant colors"
    [] style = "futuristic" -> "futuristic, sci-fi, cyberpunk, advanced technology"
    [] OTHER -> "undefined"

platformPrompts(platform) ==
  CASE platform = "facebook" -> "Facebook post optimized, engaging, social media friendly"
    [] platform = "instagram" -> "Instagram style, square format, visually appealing"
    [] platform = "youtube" -> "YouTube thumbnail, eye-catching, high contrast"
    [] platform = "google_ads" -> "Google Ads banner, professional, conversion optimized"
    [] platform = "twitter" -> "Twitter card, horizontal format, attention grabbing"
    [] platform = "linkedin" -> "LinkedIn professional, business oriented, clean design"
    [] OTHER -> "undefined"

MarketingSuffix == "Professional marketing content, high quality, brand appropriate."

\* variant: the template leaves the platform descriptor out
optimizePromptNoPlatform(prompt, options) ==
  prompt \o ". Style: " \o stylePrompts(options.style) \o ". " \o MarketingSuffix

optimizePrompt(prompt, options) ==
  prompt \o ". Style: " \o stylePrompts(options.style)
         \o ". Platform: " \o platformPrompts(options.platform)
         \o ". " \o MarketingSuffix

\* what the image provider can answer to images.generate
ImageOutcomes ==
  { [kind |-> "ok",     url |-> ImageUrl, message |-> ""],
    [kind |-> "empty",  url |-> "",       message |-> ""],    \* data = []
    [kind |-> "nourl",  url |-> "",       message |-> ""],    \* data[0] has no url
    [kind |-> "error",  url |-> "",       message |-> "Billing hard limit has been reached"],
    [kind |-> "error",  url |-> "",       message |-> ""] }   \* rejection without message

\* response.data[0]?.url
FirstArtifactUrl(outcome) == IF outcome.kind = "ok" THEN outcome.url ELSE ""

\* variant: a response without URL is not detected
ImageThrownNoUrlCheck(outcome) ==
  IF outcome.kind = "error" THEN [thrown |-> TRUE, message |-> outcome.message]
  ELSE [thrown |-> FALSE, message |-> ""]

\* the Error caught by generateImage's catch block
ImageThrown(outcome) ==
  IF outcome.kind = "error" THEN [thrown |-> TRUE, message |-> outcome.message]
  ELSE IF Falsy(FirstArtifactUrl(outcome))
       THEN [thrown |-> TRUE, message |-> "No image URL returned from OpenAI"]
       ELSE [thrown |-> FALSE, message |-> ""]

\* variant: no catch block, a throw leaves the method
generateImageUncaught(outcome) ==
  LET e == ImageThrown(outcome) IN
    [rejected |-> e.thrown, success |-> ~e.thrown, url |-> FirstArtifactUrl(outcome),
     error |-> ""]

\* A settled dispatcher promise: rejected = TRUE when it rejected (an exception
\* left the method), else the GenerationResult it resolved to.
\* In generateImage the try block spans the whole body, so every throw is caught.
generateImage(outcome) ==
  LET e == ImageThrown(outcome) IN
    IF e.thrown
    THEN [rejected |-> FALSE, success |-> FALSE, url |-> "",
          error |-> OrElse(e.message, "Failed to generate image")]
    ELSE [rejected |-> FALSE, success |-> TRUE, url |-> FirstArtifactUrl(outcome),
          error |-> ""]

\* the placeholder: after the 3000 ms delay it always resolves to a mock URL
generateVideo == [rejected |-> FALSE, success |-> TRUE, url |-> VideoUrl, error |-> ""]

\* what the text-completion provider can answer; content is a sequence of
\* pieces, whitespace pieces being " "
CompletionKinds == {"refined", "padded", "blank", "nochoices", "error"}

CompletionContent(kind, prompt) ==
  CASE kind = "refined" -> << "Refined: " \o prompt >>
    [] kind = "padded" -> << " ", "Refined: " \o prompt, " " >>
    [] kind = "blank" -> << " ", " " >>
    [] OTHER -> << >>

RECURSIVE TrimLeft(_)
TrimLeft(s) == IF s # << >> /\ Head(s) = " " THEN TrimLeft(Tail(s)) ELSE s

RECURSIVE TrimRight(_)
TrimRight(s) ==
  IF s # << >> /\ s[Len(s)] = " " THEN TrimRight(SubSeq(s, 1, Len(s) - 1)) ELSE s

RECURSIVE Join(_)
Join(s) == IF s = << >> THEN "" ELSE Head(s) \o Join(Tail(s))

Trim(s) == Join(TrimRight(TrimLeft(s)))

optimizeTextPrompt(prompt, kind) ==
  IF kind = "error" THEN prompt
  ELSE OrElse(Trim(CompletionContent(kind, prompt)), prompt)

\* console.error in the catch blocks of AIService
optimizeTextPromptLog(kind) ==
  IF kind = "error" THEN {"OpenAI Text Optimization Error:"} ELSE {}

generateImageLog(outcome) ==
  IF ImageThrown(outcome).thrown THEN {"OpenAI Image Generation Error:"} ELSE {}

(* --------------------------- Generator.onSubmit ------------------------ *)
NoSub == [present |-> FALSE, current_usage |-> 0, usage_limit |-> 0]

\* variant: the check compares with > instead of >=
authorizeStrict(subscription) ==
  ~(subscription.present /\ subscription.current_usage > subscription.usage_limit)

\* variant: the check is left out
authorizeNone(subscription) == TRUE

\* the usage-limit check: TRUE when the flow may go on
authorize(subscription) ==
  ~(subscription.present /\ subscription.current_usage >= subscription.usage_limit)

\* variant: the video branch is missing
routeImageOnly(type) == "generateImage"

\* if (data.type === 'video') generateVideo else generateImage
route(type) == IF type = "video" THEN "generateVideo" ELSE "generateImage"

\* variant: the result is not checked
resultOkAlways(result) == TRUE

\* variant: the URL test is negated
resultOkNoUrl(result) == result.success /\ Falsy(result.url)

\* if (result.success && result.url)
resultOk(result) == result.success /\ ~Falsy(result.url)

\* { current_usage: (subscription?.current_usage || 0) + 1 }
usageUpdate(subscription) ==
  (IF subscription.present THEN subscription.current_usage ELSE 0) + 1

\* variant: the row keeps the prompt as typed
contentRowTyped(user, data, optimized, result) ==
  [ user_id |-> user,
    title |-> "Generated " \o data.type,
    description |-> data.prompt,
    prompt |-> data.prompt,
    type |-> data.type,
    platform |-> data.platform,
    style |-> data.style,
    output_url |-> result.url ]

\* variant: the title does not follow the type
contentRowFixedTitle(user, data, optimized, result) ==
  [ user_id |-> user,
    title |-> "Generated image",
    description |-> data.prompt,
    prompt |-> OrElse(optimized, data.prompt),
    type |-> data.type,
    platform |-> data.platform,
    style |-> data.style,
    output_url |-> result.url ]

contentRow(user, data, optimized, result) ==
  [ user_id |-> user,
    title |-> "Generated " \o data.type,
    description |-> data.prompt,
    prompt |-> OrElse(optimized, data.prompt),
    type |-> data.type,
    platform |-> data.platform,
    style |-> data.style,
    output_url |-> result.url ]

NoResult == [rejected |-> FALSE, success |-> FALSE, url |-> "", error |-> ""]

\* variant: the usage update is awaited before the insert
persistStepsSwapped == << "update", "insert" >>

\* the two awaited store calls of a successful generation, in program order
persistSteps == << "insert", "update" >>

stepAfter(step) == IF step = persistSteps[1] THEN persistSteps[2] ELSE "done"
NoData == [prompt |-> "", type |-> "image", platform |-> "instagram", style |-> "realistic"]
\* what a running onSubmit closed over (data, optimizedPrompt, subscription, user),
\* the options it handed to the dispatcher, the prompt that one handed to
\* images.generate, the provider's kind of answer, the dispatcher's result, and
\* the two tables as they were when it started
NoFlow ==
  [ data |-> NoData, optimizedPrompt |-> "", subscription |-> NoSub, user |-> "",
    options |-> NoData, request |-> "", response |-> "", result |-> NoResult,
    usageBefore |-> NoSub, rowsBefore |-> << >> ]

QuotaMessage ==
  "You have reached your generation limit for this month. Please upgrade your plan."
ExceptionMessage == "An error occurred during generation"

(* ------------------------------- state --------------------------------- *)
VARIABLES
  user,             \* useAuth().user id, "" when signed out
  dbSub,            \* the user's row of table 'subscriptions'
  content_items,    \* table 'content_items', in insertion order
  usageWrites,      \* number of usage updates the store has applied
  subscription,     \* per view: useAuth().subscription, the snapshot the view holds
  form,             \* per view: the react-hook-form values
  optimizedPrompt,  \* per view: useState('')
  generatedImage,   \* per view: useState(null)
  isGenerating,     \* per view: useState(false)
  timer,            \* per view: the pending debounce timeouts, each the prompt it closed over
  refines,          \* per view: optimizeTextPrompt calls in flight
  refineIssued,     \* per view: number of optimizeTextPrompt calls issued so far
  appliedGen,       \* per view: which call's result setOptimizedPrompt last applied
  pc,               \* per view: where the running onSubmit is suspended
  flow,             \* per view: what the running onSubmit closed over, and its result
  calls,            \* per view: external calls of the current/last onSubmit, in order
  alertMsg,         \* per view: alert() shown by the current/last onSubmit, "" if none
  logged,           \* per view: the console.error prefixes written so far
  edits,            \* per view: number of form edits so far
  flows,            \* per view: number of submits so far
  auth,             \* useAuth() as the router sees it: loading, user, plan of the subscription
  location,         \* the router's current path
  from,             \* location.state.from left by the last redirect to /login, "" if none
  screen,           \* the element the matched route shows
  brandKits,        \* BrandKit page: useState([]), kit ids, newest first
  editingKit,       \* BrandKit page: id of the kit in useState(null), 0 for null
  isCreating,       \* BrandKit page: useState(false)
  kitCalls,         \* BrandKit page: store calls in flight, each with its handler's closure
  kitsCreated,      \* table 'brand_kits': number of rows inserted so far, the last id given
  contentItems,     \* Library page: useState([]), item ids, newest first
  selectedItem,     \* Library page: id of the item in useState(null), 0 for null
  deleteCalls       \* Library page: deletes in flight, each with its handler's closure

generatorVars ==
  << user, dbSub, content_items, usageWrites, subscription, form, optimizedPrompt, generatedImage,
     isGenerating, timer, refines, refineIssued, appliedGen, pc, flow, calls, alertMsg,
     logged, edits, flows >>

routeVars == << auth, location, from, screen >>
kitVars == << brandKits, editingKit, isCreating, kitCalls, kitsCreated >>
libraryVars == << contentItems, selectedItem, deleteCalls >>
pageVars == << routeVars, kitVars, libraryVars >>

vars == << generatorVars, pageVars >>

storeVars == << dbSub, content_items, usageWrites >>
authVars == << user, subscription >>
refineVars == << timer, refines, refineIssued, appliedGen >>
flowVars == << generatedImage, isGenerating, pc, flow, calls, alertMsg, logged, flows >>

SubscriptionRows ==
  { [present |-> TRUE, current_usage |-> u, usage_limit |-> l] :
      u \in 0..MaxLimit, l \in 1..MaxLimit }

\* the views of active are mounted, the subscription row is one of rows and
\* the form of a mounted view starts as one of forms
InitGenerator(active, rows, forms) ==
  /\ user = UserId
  /\ dbSub \in rows
  /\ content_items = << >>
  /\ usageWrites = 0
  /\ subscription = [t \in Tabs |-> dbSub]
  /\ \E f \in forms : form = [t \in Tabs |-> IF t \in active THEN f ELSE NoData]
  /\ optimizedPrompt = [t \in Tabs |-> ""]
  /\ generatedImage = [t \in Tabs |-> ""]
  /\ isGenerating = [t \in Tabs |-> FALSE]
  \* the effect runs once on mount, with watchPrompt still undefined
  /\ timer = [t \in Tabs |-> IF t \in active THEN {""} ELSE {}]
  /\ refines = [t \in Tabs |-> {}]
  /\ refineIssued = [t \in Tabs |-> 0]
  /\ appliedGen = [t \in Tabs |-> 0]
  /\ pc = [t \in Tabs |-> IF t \in active THEN "idle" ELSE "unmounted"]
  /\ flow = [t \in Tabs |-> NoFlow]
  /\ calls = [t \in Tabs |-> << >>]
  /\ alertMsg = [t \in Tabs |-> ""]
  /\ logged = [t \in Tabs |-> {}]
  /\ edits = [t \in Tabs |-> 0]
  /\ flows = [t \in Tabs |-> 0]

\* the signed-in user is on /generate
RouteAtGenerator ==
  /\ auth = [loading |-> FALSE, user |-> UserId, plan |-> "none"]
  /\ location = "/generate"
  /\ from = ""
  /\ screen = "Generator"

\* the BrandKit page is not open
BrandKitClosed ==
  /\ brandKits = << >>
  /\ editingKit = 0
  /\ isCreating = FALSE
  /\ kitCalls = {}
  /\ kitsCreated = 0

\* the Library page is not open
LibraryClosed ==
  /\ contentItems = << >>
  /\ selectedItem = 0
  /\ deleteCalls = {}

AtGenerator == RouteAtGenerator /\ BrandKitClosed /\ LibraryClosed

InitWith(active, rows, forms) == InitGenerator(active, rows, forms) /\ AtGenerator

\* the form defaults, with no type in the URL
InitCommon(active) ==
  InitWith(active,
           {NoSub} \cup {s \in SubscriptionRows : s.current_usage <= s.usage_limit},
           {NoData})

\* one Generator view
Init == InitCommon({1})

Mounted(t) == pc[t] # "unmounted"

(* --------------------------- form and debounce ------------------------- *)
\* variant: the effect returns no cleanup, pending timeouts stay armed
cleanupNone(pending) == pending

\* return () => clearTimeout(timeoutId): what is left of the pending timeouts
cleanup(pending) == {}

\* typing in the prompt textarea: watchPrompt changes, the effect's cleanup
\* clears the pending timeout and the effect arms a new one
EditPrompt(t, p) ==
  /\ Mounted(t)
  /\ edits[t] < MaxEdits
  /\ p # form[t].prompt
  /\ form' = [form EXCEPT ![t].prompt = p]
  /\ timer' = [timer EXCEPT ![t] = cleanup(@) \cup {p}]
  /\ edits' = [edits EXCEPT ![t] = @ + 1]
  /\ UNCHANGED << storeVars, authVars, optimizedPrompt, refines, refineIssued, appliedGen,
                  flowVars >>
  /\ UNCHANGED pageVars

\* picking a type, platform or style radio button
EditSelection(t, sel) ==
  /\ Mounted(t)
  /\ edits[t] < MaxEdits
  /\ sel # [type |-> form[t].type, platform |-> form[t].platform, style |-> form[t].style]
  /\ form' = [form EXCEPT ![t].type = sel.type, ![t].platform = sel.platform,
                          ![t].style = sel.style]
  /\ edits' = [edits EXCEPT ![t] = @ + 1]
  /\ UNCHANGED << storeVars, authVars, optimizedPrompt, refineVars, flowVars >>
  /\ UNCHANGED pageVars

\* variant: a prompt of exactly the minimum length is refined too
shouldRefineAtLeast(prompt) == ~Falsy(prompt) /\ Len(prompt) >= DebounceMinLength

\* if (watchPrompt && watchPrompt.length > 10)
shouldRefine(prompt) == ~Falsy(prompt) /\ Len(prompt) > DebounceMinLength

\* the 1000 ms timeout fires: the callback runs up to its await
TimerFires(t, p) ==
  /\ p \in timer[t]
  /\ timer' = [timer EXCEPT ![t] = @ \ {p}]
  /\ IF shouldRefine(p)
     THEN /\ refineIssued' = [refineIssued EXCEPT ![t] = @ + 1]
          /\ refines' = [refines EXCEPT ![t] =
                           @ \cup {[gen |-> refineIssued[t] + 1, prompt |-> p]}]
     ELSE UNCHANGED << refines, refineIssued >>
  /\ UNCHANGED << storeVars, authVars, form, optimizedPrompt, appliedGen, flowVars, edits >>
  /\ UNCHANGED pageVars

\* optimizeTextPrompt resolves: const optimized = await ...; setOptimizedPrompt(optimized)
RefineCompletes(t, c, kind) ==
  /\ c \in refines[t]
  /\ refines' = [refines EXCEPT ![t] = @ \ {c}]
  /\ optimizedPrompt' = [optimizedPrompt EXCEPT ![t] = optimizeTextPrompt(c.prompt, kind)]
  /\ appliedGen' = [appliedGen EXCEPT ![t] = c.gen]
  /\ logged' = [logged EXCEPT ![t] = @ \cup optimizeTextPromptLog(kind)]
  /\ UNCHANGED << storeVars, authVars, form, timer, refineIssued, generatedImage,
                  isGenerating, pc, flow, calls, alertMsg, flows, edits >>
  /\ UNCHANGED pageVars

(* ------------------------------ onSubmit ------------------------------- *)
\* const options = { prompt: optimizedPrompt || data.prompt, style, platform, type }
generationOptions(optimized, data) ==
  [ prompt |-> OrElse(optimized, data.prompt), style |-> data.style,
    platform |-> data.platform, type |-> data.type ]

\* the prompt generateImage hands to images.generate; generateVideo calls no provider
providerRequest(op, options) ==
  IF op = "generateImage" THEN optimizePrompt(options.prompt, options) ELSE ""

\* variant: the button is not disabled while a flow runs
canSubmitWhileGenerating(t) ==
  /\ Mounted(t)
  /\ ~Falsy(form[t].prompt)
  /\ Len(form[t].prompt) >= FormMinLength

\* the submit button is enabled and react-hook-form's validation of 'prompt' passes
canSubmit(t) ==
  /\ Mounted(t)
  /\ ~isGenerating[t]
  /\ ~Falsy(form[t].prompt)
  /\ Len(form[t].prompt) >= FormMinLength

startedFlow(t) ==
  [ data |-> form[t], optimizedPrompt |-> optimizedPrompt[t],
    subscription |-> subscription[t], user |-> user,
    options |-> NoData, request |-> "", response |-> "", result |-> NoResult,
    usageBefore |-> dbSub, rowsBefore |-> content_items ]

\* the finally block
finish(t) ==
  /\ isGenerating' = [isGenerating EXCEPT ![t] = FALSE]
  /\ pc' = [pc EXCEPT ![t] = "idle"]

\* the catch block of onSubmit
catch(t) ==
  /\ logged' = [logged EXCEPT ![t] = @ \cup {"Generation error:"}]
  /\ alertMsg' = [alertMsg EXCEPT ![t] = ExceptionMessage]
  /\ finish(t)

\* onSubmit up to its first await, when the usage-limit check refuses
SubmitRefused(t) ==
  /\ canSubmit(t)
  /\ flows[t] < MaxFlows
  /\ ~Falsy(user)
  /\ ~authorize(subscription[t])
  /\ flows' = [flows EXCEPT ![t] = @ + 1]
  /\ flow' = [flow EXCEPT ![t] = startedFlow(t)]
  /\ calls' = [calls EXCEPT ![t] = << "authorize" >>]
  /\ alertMsg' = [alertMsg EXCEPT ![t] = QuotaMessage]
  /\ UNCHANGED << storeVars, authVars, form, optimizedPrompt, refineVars, generatedImage,
                  isGenerating, pc, logged, edits >>
  /\ UNCHANGED pageVars

\* onSubmit up to its first await, when the check passes: the dispatch is issued
SubmitAuthorized(t) ==
  /\ canSubmit(t)
  /\ flows[t] < MaxFlows
  /\ ~Falsy(user)
  /\ authorize(subscription[t])
  /\ flows' = [flows EXCEPT ![t] = @ + 1]
  /\ isGenerating' = [isGenerating EXCEPT ![t] = TRUE]
  /\ generatedImage' = [generatedImage EXCEPT ![t] = ""]
  /\ LET op == route(form[t].type)
         options == generationOptions(optimizedPrompt[t], form[t])
     IN /\ flow' = [flow EXCEPT ![t] =
                      [startedFlow(t) EXCEPT !.options = options,
                                             !.request = providerRequest(op, options)]]
        /\ calls' = [calls EXCEPT ![t] = << "authorize", op >>]
  /\ alertMsg' = [alertMsg EXCEPT ![t] = ""]
  /\ pc' = [pc EXCEPT ![t] = "dispatch"]
  /\ UNCHANGED << storeVars, authVars, form, optimizedPrompt, refineVars, logged, edits >>
  /\ UNCHANGED pageVars

\* variant: the try block ends after the first store call
proceedEnds(t, step) == finish(t) /\ UNCHANGED calls

\* after a store call of the flow has settled without throwing: the next
\* awaited call is issued, or the try block ends and the finally block runs
proceed(t, step) ==
  IF stepAfter(step) = "done"
  THEN finish(t) /\ UNCHANGED calls
  ELSE /\ calls' = [calls EXCEPT ![t] = Append(@, stepAfter(step))]
       /\ pc' = [pc EXCEPT ![t] = stepAfter(step)]
       /\ UNCHANGED isGenerating

\* variant: a failed result is not reported
failureMessageNone(result) == ""

\* alert(result.error || 'Generation failed')
failureMessage(result) == OrElse(result.error, "Generation failed")

\* variant: a failed dispatch is issued once more
afterDispatchRetry(t, kind, result, log) ==
  /\ flow' = [flow EXCEPT ![t].response = kind, ![t].result = result]
  /\ logged' = [logged EXCEPT ![t] = @ \cup log]
  /\ IF resultOk(result)
     THEN /\ generatedImage' = [generatedImage EXCEPT ![t] = result.url]
          /\ calls' = [calls EXCEPT ![t] = Append(@, persistSteps[1])]
          /\ pc' = [pc EXCEPT ![t] = persistSteps[1]]
          /\ UNCHANGED << alertMsg, isGenerating >>
     ELSE IF Len(calls[t]) = 2
     THEN /\ calls' = [calls EXCEPT ![t] = Append(@, calls[t][2])]
          /\ UNCHANGED << generatedImage, alertMsg, isGenerating, pc >>
     ELSE /\ alertMsg' = [alertMsg EXCEPT ![t] = failureMessage(result)]
          /\ finish(t)
          /\ UNCHANGED << generatedImage, calls >>
  /\ UNCHANGED << storeVars, authVars, form, optimizedPrompt, refineVars, edits, flows >>
  /\ UNCHANGED pageVars

\* the dispatcher's promise has settled: the rest of onSubmit up to its next await
afterDispatch(t, kind, result, log) ==
  /\ flow' = [flow EXCEPT ![t].response = kind, ![t].result = result]
  /\ IF result.rejected
     THEN /\ logged' = [logged EXCEPT ![t] = @ \cup log \cup {"Generation error:"}]
          /\ alertMsg' = [alertMsg EXCEPT ![t] = ExceptionMessage]
          /\ finish(t)
          /\ UNCHANGED << generatedImage, calls >>
     ELSE IF resultOk(result)
     THEN /\ generatedImage' = [generatedImage EXCEPT ![t] = result.url]
          /\ calls' = [calls EXCEPT ![t] = Append(@, persistSteps[1])]
          /\ pc' = [pc EXCEPT ![t] = persistSteps[1]]
          /\ logged' = [logged EXCEPT ![t] = @ \cup log]
          /\ UNCHANGED << alertMsg, isGenerating >>
     ELSE /\ alertMsg' = [alertMsg EXCEPT ![t] = failureMessage(result)]
          /\ logged' = [logged EXCEPT ![t] = @ \cup log]
          /\ finish(t)
          /\ UNCHANGED << generatedImage, calls >>
  /\ UNCHANGED << storeVars, authVars, form, optimizedPrompt, refineVars, edits, flows >>
  /\ UNCHANGED pageVars

\* images.generate settles: generateImage builds its result and onSubmit goes on
ImageResponds(t, outcome) ==
  /\ pc[t] = "dispatch"
  /\ calls[t][Len(calls[t])] = "generateImage"
  /\ afterDispatch(t, outcome.kind, generateImage(outcome), generateImageLog(outcome))

\* the 3000 ms delay of generateVideo elapses and onSubmit goes on
VideoResponds(t) ==
  /\ pc[t] = "dispatch"
  /\ calls[t][Len(calls[t])] = "generateVideo"
  /\ afterDispatch(t, "ok", generateVideo, {})

StoreOutcomes == {"ok", "error", "reject"}

\* the insert into 'content_items' settles; an error value is logged and
\* onSubmit goes on, a rejection is thrown at the await
InsertResponds(t, outcome) ==
  /\ pc[t] = "insert"
  /\ content_items' =
       IF outcome = "ok"
       THEN Append(content_items,
                   contentRow(flow[t].user, flow[t].data, flow[t].optimizedPrompt,
                              flow[t].result))
       ELSE content_items
  /\ IF outcome = "reject"
     THEN catch(t) /\ UNCHANGED calls
     ELSE /\ logged' = [logged EXCEPT ![t] =
                          IF outcome = "error" THEN @ \cup {"Error saving content:"} ELSE @]
          /\ proceed(t, "insert")
          /\ UNCHANGED alertMsg
  /\ UNCHANGED << dbSub, usageWrites, authVars, form, optimizedPrompt, refineVars,
                  generatedImage, flow, edits, flows >>
  /\ UNCHANGED pageVars

\* the update of 'subscriptions' settles; its returned error value is not looked at
UpdateResponds(t, outcome) ==
  /\ pc[t] = "update"
  /\ IF outcome = "ok" /\ dbSub.present
     THEN /\ dbSub' = [dbSub EXCEPT !.current_usage = usageUpdate(flow[t].subscription)]
          /\ usageWrites' = usageWrites + 1
     ELSE UNCHANGED << dbSub, usageWrites >>
  /\ IF outcome = "reject"
     THEN catch(t) /\ UNCHANGED calls
     ELSE proceed(t, "update") /\ UNCHANGED << alertMsg, logged >>
  /\ UNCHANGED << content_items, authVars, form, optimizedPrompt, refineVars, generatedImage,
                  flow, edits, flows >>
  /\ UNCHANGED pageVars

\* the auth context loads the subscription row again
RefreshSubscription(t) ==
  /\ Mounted(t)
  /\ subscription[t] # dbSub
  /\ subscription' = [subscription EXCEPT ![t] = dbSub]
  /\ UNCHANGED << user, storeVars, form, optimizedPrompt, refineVars, flowVars, edits >>
  /\ UNCHANGED pageVars

Next ==
  \E t \in Tabs :
    \/ \E p \in Prompts : EditPrompt(t, p)
    \/ \E sel \in Selections : EditSelection(t, sel)
    \/ \E p \in timer[t] : TimerFires(t, p)
    \/ \E c \in refines[t], kind \in CompletionKinds : RefineCompletes(t, c, kind)
    \/ SubmitRefused(t)
    \/ SubmitAuthorized(t)
    \/ \E outcome \in ImageOutcomes : ImageResponds(t, outcome)
    \/ VideoResponds(t)
    \/ \E outcome \in StoreOutcomes : InsertResponds(t, outcome)
    \/ \E outcome \in StoreOutcomes : UpdateResponds(t, outcome)
    \/ RefreshSubscription(t)

Spec == Init /\ [][Next]_vars

\* the type a URL can carry: searchParams.get('type') as any, not one of the
\* four the buttons offer
UrlTypes == Types \cup {"gif"}

\* every form a submit can find: any prompt, any style and platform of the
\* radio groups, any type of the buttons or of the URL
Requests == [prompt : Prompts, type : UrlTypes, platform : Platforms, style : Styles]

InitRequests ==
  InitWith({1},
           {NoSub} \cup {s \in SubscriptionRows : s.current_usage <= s.usage_limit},
           Requests)

\* the steps of onSubmit alone, on a form that is not edited any more
NextRequests ==
  \E t \in Tabs :
    \/ SubmitRefused(t)
    \/ SubmitAuthorized(t)
    \/ \E outcome \in ImageOutcomes : ImageResponds(t, outcome)
    \/ VideoResponds(t)
    \/ \E outcome \in StoreOutcomes : InsertResponds(t, outcome)
    \/ \E outcome \in StoreOutcomes : UpdateResponds(t, outcome)

SpecRequests == InitRequests /\ [][NextRequests]_vars

\* two Generator views of the same user, each with a prompt typed in, on a
\* subscription row that has no usage yet
InitTwoTabs ==
  InitWith({1, 2},
           {s \in SubscriptionRows : s.current_usage = 0},
           {[NoData EXCEPT !.prompt = p] : p \in {"Summer sale poster"}})

\* the steps of onSubmit in either view, and the reload of the subscription
NextTwoTabs ==
  \E t \in Tabs :
    \/ SubmitRefused(t)
    \/ SubmitAuthorized(t)
    \/ \E outcome \in ImageOutcomes : ImageResponds(t, outcome)
    \/ \E outcome \in StoreOutcomes : InsertResponds(t, outcome)
    \/ \E outcome \in StoreOutcomes : UpdateResponds(t, outcome)
    \/ RefreshSubscription(t)

SpecTwoTabs == InitTwoTabs /\ [][NextTwoTabs]_vars

\* an external call awaited by onSubmit of view t returns
Responds(t) ==
  \/ \E outcome \in ImageOutcomes : ImageResponds(t, outcome)
  \/ VideoResponds(t)
  \/ \E outcome \in StoreOutcomes : InsertResponds(t, outcome)
  \/ \E outcome \in StoreOutcomes : UpdateResponds(t, outcome)

\* the Generator view when every awaited call returns at some time
SpecReturns == Init /\ [][Next]_vars /\ \A t \in Tabs : WF_vars(Responds(t))

(* ---------------------------- ProtectedRoute --------------------------- *)
Plans == {"free", "pro", "enterprise"}

\* what useAuth() can hand out; plan "none" is a null subscription
AuthStates == [loading : BOOLEAN, user : {"", UserId}, plan : Plans \cup {"none"}]

ProtectedPaths == {"/dashboard", "/generate", "/library", "/brand-kit", "/settings", "/billing"}
PublicPaths == {"/", "/pricing", "/login", "/register"}

\* <ProtectedRoute requireSubscription> wraps Billing alone
requireSubscription(path) == path = "/billing"

\* the element of the route that matches path
element(path) ==
  CASE path = "/dashboard" -> "Dashboard"
    [] path = "/generate" -> "Generator"
    [] path = "/library" -> "Library"
    [] path = "/brand-kit" -> "BrandKit"
    [] path = "/settings" -> "Settings"
    [] path = "/billing" -> "Billing"
    [] path = "/pricing" -> "Pricing"
    [] path = "/login" -> "Login"
    [] path = "/register" -> "Register"
    [] OTHER -> "Home"

\* variant: the user is not looked at
ProtectedRouteAnyUser(a, required) ==
  IF a.loading THEN "spinner"
  ELSE IF required /\ a.plan = "free" THEN "/pricing"
  ELSE "children"

\* what ProtectedRoute returns: the spinner, a <Navigate> to a path, or its children
ProtectedRoute(a, required) ==
  IF a.loading THEN "spinner"
  ELSE IF Falsy(a.user) THEN "/login"
  ELSE IF required /\ a.plan = "free" THEN "/pricing"
  ELSE "children"

\* the router renders path under auth state a: where it ends up and what it shows
render(path, a, state) ==
  IF path \in ProtectedPaths
  THEN LET r == ProtectedRoute(a, requireSubscription(path))
       IN CASE r = "spinner" -> [location |-> path, from |-> state, screen |-> "spinner"]
            [] r = "/login" -> [location |-> r, from |-> path, screen |-> element(r)]
            [] r = "/pricing" -> [location |-> r, from |-> "", screen |-> element(r)]
            [] OTHER -> [location |-> path, from |-> state, screen |-> element(path)]
  ELSE [location |-> path, from |-> state, screen |-> element(path)]

shows(r) ==
  /\ location' = r.location
  /\ from' = r.from
  /\ screen' = r.screen

\* the auth context changes its value and the matched route renders again
AuthChanges(a) ==
  /\ a # auth
  /\ auth' = a
  /\ shows(render(location, a, from))
  /\ UNCHANGED << generatorVars, kitVars, libraryVars >>

\* the user follows a link or enters a URL
GoTo(path) ==
  /\ shows(render(path, auth, ""))
  /\ UNCHANGED << auth, generatorVars, kitVars, libraryVars >>

\* the app is opened at some URL while the auth context is still loading
InitRoute ==
  /\ InitGenerator({}, {NoSub}, {NoData})
  /\ BrandKitClosed
  /\ LibraryClosed
  /\ auth = [loading |-> TRUE, user |-> "", plan |-> "none"]
  /\ \E path \in ProtectedPaths \cup PublicPaths :
       LET r == render(path, auth, "")
       IN location = r.location /\ from = r.from /\ screen = r.screen

NextRoute ==
  \/ \E a \in AuthStates : AuthChanges(a)
  \/ \E path \in ProtectedPaths \cup PublicPaths : GoTo(path)

SpecRoute == InitRoute /\ [][NextRoute]_vars

(* ------------------------------- BrandKit ------------------------------ *)
\* the signed-in user is on a protected page
RouteAt(path) ==
  /\ auth = [loading |-> FALSE, user |-> UserId, plan |-> "pro"]
  /\ location = path
  /\ from = ""
  /\ screen = element(path)

Range(seq) == {seq[i] : i \in 1..Len(seq)}

\* prev.filter(x => x.id !== id)
RECURSIVE without(_, _)
without(seq, id) ==
  IF seq = << >> THEN << >>
  ELSE IF Head(seq) = id THEN without(Tail(seq), id)
  ELSE << Head(seq) >> \o without(Tail(seq), id)

\* rows 1..n as .order('created_at', { ascending: false }) returns them
newestFirst(n) == [i \in 1..n |-> n + 1 - i]

\* the form is shown: {(editingKit || isCreating) && ...}
editorOpen == editingKit # 0 \/ isCreating

handleCreateNew ==
  /\ isCreating' = TRUE
  /\ editingKit' = 0
  /\ UNCHANGED << brandKits, kitCalls, kitsCreated, generatorVars, routeVars, libraryVars >>

\* a click on the card of kit
handleEdit(kit) ==
  /\ kit \in Range(brandKits)
  /\ editingKit' = kit
  /\ isCreating' = FALSE
  /\ UNCHANGED << brandKits, kitCalls, kitsCreated, generatorVars, routeVars, libraryVars >>

handleCancel ==
  /\ editorOpen
  /\ editingKit' = 0
  /\ isCreating' = FALSE
  /\ UNCHANGED << brandKits, kitCalls, kitsCreated, generatorVars, routeVars, libraryVars >>

\* BrandKit.onSubmit up to its await: an update of the kit being edited, else an insert
submitKit ==
  /\ editorOpen
  /\ ~Falsy(auth.user)
  /\ Cardinality(kitCalls) < MaxPending
  /\ kitCalls' = kitCalls \cup
       {[op |-> IF editingKit # 0 THEN "update" ELSE "insert",
         kit |-> editingKit, editing |-> editingKit]}
  /\ UNCHANGED << brandKits, editingKit, isCreating, kitsCreated, generatorVars, routeVars,
                  libraryVars >>

\* deleteBrandKit up to its await, the confirm() accepted; the handler keeps
\* the editingKit of the render it was created in
deleteBrandKit(kit) ==
  /\ kit \in Range(brandKits)
  /\ Cardinality(kitCalls) < MaxPending
  /\ kitCalls' = kitCalls \cup {[op |-> "delete", kit |-> kit, editing |-> editingKit]}
  /\ UNCHANGED << brandKits, editingKit, isCreating, kitsCreated, generatorVars, routeVars,
                  libraryVars >>

\* a store call of the page settles and its handler runs to its end; an error
\* value is thrown and a rejection is caught alike, the state stays as it is
kitCallReturns(c, outcome) ==
  /\ c \in kitCalls
  /\ kitCalls' = kitCalls \ {c}
  /\ IF outcome # "ok"
     THEN UNCHANGED << brandKits, editingKit, isCreating, kitsCreated >>
     ELSE CASE c.op = "update" ->
                 /\ editingKit' = 0
                 /\ UNCHANGED << brandKits, isCreating, kitsCreated >>
            [] c.op = "insert" ->
                 /\ kitsCreated < MaxKits
                 /\ kitsCreated' = kitsCreated + 1
                 /\ brandKits' = << kitsCreated + 1 >> \o brandKits
                 /\ isCreating' = FALSE
                 /\ UNCHANGED editingKit
            [] OTHER ->
                 /\ brandKits' = without(brandKits, c.kit)
                 /\ editingKit' = IF c.editing = c.kit THEN 0 ELSE editingKit
                 /\ UNCHANGED << isCreating, kitsCreated >>
  /\ UNCHANGED << generatorVars, routeVars, libraryVars >>

\* the BrandKit page is open and fetchBrandKits has loaded the user's kits
InitBrandKit ==
  /\ InitGenerator({}, {NoSub}, {NoData})
  /\ RouteAt("/brand-kit")
  /\ LibraryClosed
  /\ kitsCreated \in 0..MaxKits
  /\ brandKits = newestFirst(kitsCreated)
  /\ editingKit = 0
  /\ isCreating = FALSE
  /\ kitCalls = {}

NextBrandKit ==
  \/ handleCreateNew
  \/ \E kit \in 1..MaxKits : handleEdit(kit)
  \/ handleCancel
  \/ submitKit
  \/ \E kit \in 1..MaxKits : deleteBrandKit(kit)
  \/ \E c \in kitCalls, outcome \in StoreOutcomes : kitCallReturns(c, outcome)

SpecBrandKit == InitBrandKit /\ [][NextBrandKit]_vars

(* ------------------------------- Library ------------------------------- *)
\* onClick={() => setSelectedItem(item)} on an item of the list
selectItem(item) ==
  /\ item \in Range(contentItems)
  /\ selectedItem' = item
  /\ UNCHANGED << contentItems, deleteCalls, generatorVars, routeVars, kitVars >>

\* the close button of the details panel: setSelectedItem(null)
closeDetails ==
  /\ selectedItem # 0
  /\ selectedItem' = 0
  /\ UNCHANGED << contentItems, deleteCalls, generatorVars, routeVars, kitVars >>

\* deleteItem up to its await, from the list or from the details panel: a
\* declined confirm() ends it; the handler keeps the selectedItem of the
\* render it was created in
deleteItem(item, confirmed) ==
  /\ item \in Range(contentItems) \cup ({selectedItem} \ {0})
  /\ Cardinality(deleteCalls) < MaxPending
  /\ deleteCalls' =
       IF confirmed THEN deleteCalls \cup {[item |-> item, selected |-> selectedItem]}
       ELSE deleteCalls
  /\ UNCHANGED << contentItems, selectedItem, generatorVars, routeVars, kitVars >>

\* the store's delete settles and deleteItem runs to its end; an error value
\* is thrown and a rejection is caught alike, the state stays as it is
deleteReturns(c, outcome) ==
  /\ c \in deleteCalls
  /\ deleteCalls' = deleteCalls \ {c}
  /\ IF outcome = "ok"
     THEN /\ contentItems' = without(contentItems, c.item)
          /\ selectedItem' = IF c.selected = c.item THEN 0 ELSE selectedItem
     ELSE UNCHANGED << contentItems, selectedItem >>
  /\ UNCHANGED << generatorVars, routeVars, kitVars >>

\* the Library page is open and fetchContentItems has loaded the user's items
InitLibrary ==
  /\ InitGenerator({}, {NoSub}, {NoData})
  /\ RouteAt("/library")
  /\ BrandKitClosed
  /\ \E n \in 0..MaxItems : contentItems = newestFirst(n)
  /\ selectedItem = 0
  /\ deleteCalls = {}

NextLibrary ==
  \/ \E item \in 1..MaxItems : selectItem(item)
  \/ closeDetails
  \/ \E item \in 1..MaxItems, confirmed \in BOOLEAN : deleteItem(item, confirmed)
  \/ \E c \in deleteCalls, outcome \in StoreOutcomes : deleteReturns(c, outcome)

SpecLibrary == InitLibrary /\ [][NextLibrary]_vars

TypeOK ==
  /\ dbSub \in {NoSub} \cup SubscriptionRows
  /\ \A t \in Tabs :
       /\ pc[t] \in {"unmounted", "idle", "dispatch", "insert", "update"}
       /\ form[t].prompt \in Prompts
       /\ form[t].type \in Types
       /\ isGenerating[t] \in BOOLEAN
       /\ Len(calls[t]) <= 4

(* ------------------------------- claims -------------------------------- *)
Count(x, seq) == Cardinality({i \in 1..Len(seq) : seq[i] = x})

IsPrefix(a, b) == Len(a) <= Len(b) /\ \A i \in 1..Len(a) : a[i] = b[i]

\* the last onSubmit of view t passed the usage-limit check and dispatched
Dispatched(t) == Len(calls[t]) >= 2

\* ... and its dispatcher promise has settled
Settled(t) == Dispatched(t) /\ pc[t] # "dispatch"

\* C1: a flow whose dispatch returned success=false has ended without an insert
\* into content_items and without a usage update, and both tables are as they
\* were when the flow started.
C1_NoPersistenceOnFailure ==
  \A t \in Tabs :
    (Settled(t) /\ ~flow[t].result.success) =>
      /\ pc[t] = "idle"
      /\ Count("insert", calls[t]) = 0
      /\ Count("update", calls[t]) = 0
      /\ dbSub = flow[t].usageBefore
      /\ content_items = flow[t].rowsBefore

C1_Witness ==
  \E t \in Tabs :
    /\ Settled(t) /\ ~flow[t].result.success
    /\ alertMsg[t] # ""
    /\ Len(content_items) = 1
    /\ flows[t] = 2

\* C2: for the quota state a submit saw, the flow was refused (quota message,
\* nothing dispatched) iff current_usage >= usage_limit, and dispatched iff
\* current_usage < usage_limit, the boundary usage_limit - 1 included.
C2_AuthorizeIffBelowLimit ==
  \A t \in Tabs :
    (calls[t] # << >> /\ flow[t].subscription.present) =>
      LET q == flow[t].subscription IN
        /\ (calls[t] = << "authorize" >> /\ alertMsg[t] = QuotaMessage)
             <=> q.current_usage >= q.usage_limit
        /\ Dispatched(t) <=> q.current_usage < q.usage_limit

C2_Witness ==
  \E t \in Tabs :
    /\ flow[t].subscription.present
    /\ flow[t].subscription.current_usage + 1 = flow[t].subscription.usage_limit
    /\ Dispatched(t)

\* C3: a submit whose quota state has current_usage >= usage_limit shows the
\* quota message, dispatches nothing, issues no insert and no usage update, and
\* leaves isGenerating and the shown result as they were.
C3_RefusedFlowDoesNothing ==
  [][ \A t \in Tabs :
        ( /\ flows'[t] # flows[t]
          /\ subscription[t].present
          /\ subscription[t].current_usage >= subscription[t].usage_limit )
        => /\ alertMsg'[t] = QuotaMessage
           /\ calls'[t] = << "authorize" >>
           /\ pc'[t] = "idle"
           /\ isGenerating'[t] = isGenerating[t]
           /\ generatedImage'[t] = generatedImage[t]
           /\ UNCHANGED << dbSub, content_items >> ]_vars

C3_Witness ==
  \E t \in Tabs :
    /\ calls[t] = << "authorize" >>
    /\ alertMsg[t] = QuotaMessage
    /\ flow[t].subscription.current_usage = flow[t].subscription.usage_limit
    /\ generatedImage[t] # ""
    /\ ~isGenerating[t]

\* C4: every usage update the store applies raises the persisted current_usage
\* by exactly one, so n successful flows in a row raise it by n.
C4_PlainIncrement ==
  [][ usageWrites' = usageWrites + 1 =>
        dbSub'.current_usage = dbSub.current_usage + 1 ]_vars

\* C5: once no refinement call is in flight, the optimized prompt in use comes
\* from the latest call issued, never from a superseded one.
C5_OnlyLatestRefinementApplied ==
  \A t \in Tabs :
    refines[t] = {} => appliedGen[t] \in {0, refineIssued[t]}

\* C6: an authorized flow of type video calls generateVideo once and never
\* generateImage; a flow of type image, banner or social calls generateImage
\* once and never generateVideo.
C6_RoutingExclusive ==
  \A t \in Tabs :
    Dispatched(t) =>
      LET ty == flow[t].data.type IN
        /\ ty = "video" =>
             /\ Count("generateVideo", calls[t]) = 1
             /\ Count("generateImage", calls[t]) = 0
             /\ flow[t].request = ""
        /\ ty \in {"image", "banner", "social"} =>
             /\ Count("generateImage", calls[t]) = 1
             /\ Count("generateVideo", calls[t]) = 0

C6_Witness ==
  \E t \in Tabs :
    /\ Settled(t)
    /\ flow[t].data.type = "video"
    /\ calls[t][2] = "generateVideo"

\* C7: the dispatcher's promise never rejects: it resolves to a result with a
\* URL on success, and with success=false and a non-empty error message (the
\* provider's message or the fallback), which the flow shows, on every failure.
C7_DispatcherNeverThrows ==
  \A t \in Tabs :
    Settled(t) =>
      LET r == flow[t].result IN
        /\ ~r.rejected
        /\ r.success => ~Falsy(r.url)
        /\ ~r.success => ~Falsy(r.error) /\ Falsy(r.url) /\ alertMsg[t] = r.error
        /\ flow[t].response = "error" =>
             /\ ~r.success
             /\ r.error \in {"Billing hard limit has been reached", "Failed to generate image"}

C7_Witness ==
  \E t \in Tabs :
    /\ Settled(t)
    /\ flow[t].response = "error"
    /\ flow[t].result.error = "Failed to generate image"

\* C8 as stated: a response with an empty artifact list, or whose first
\* artifact has no URL, gives {success: false, error: "no output produced"}
\* and neither insert nor usage update.
C8_Original ==
  \A t \in Tabs :
    (Settled(t) /\ flow[t].response \in {"empty", "nourl"}) =>
      /\ ~flow[t].result.success
      /\ flow[t].result.error = "no output produced"
      /\ Count("insert", calls[t]) = 0
      /\ Count("update", calls[t]) = 0

\* C8 amended: such a response gives success=false with the error message
\* "No image URL returned from OpenAI", and neither insert nor usage update.
C8_NoUrlIsFailure ==
  \A t \in Tabs :
    (Settled(t) /\ flow[t].response \in {"empty", "nourl"}) =>
      /\ ~flow[t].result.success
      /\ flow[t].result.error = "No image URL returned from OpenAI"
      /\ alertMsg[t] = "No image URL returned from OpenAI"
      /\ Count("insert", calls[t]) = 0
      /\ Count("update", calls[t]) = 0
      /\ dbSub = flow[t].usageBefore
      /\ content_items = flow[t].rowsBefore

C8_Witness ==
  \E t \in Tabs :
    /\ Settled(t)
    /\ flow[t].response = "empty"
    /\ pc[t] = "idle"

\* the call a suspended onSubmit is waiting for is the last one it issued
AwaitsLastCall(t) ==
  /\ pc[t] = "dispatch" => calls[t][Len(calls[t])] = route(flow[t].data.type)
  /\ pc[t] \in {"insert", "update"} => calls[t][Len(calls[t])] = pc[t]

\* C9 as stated: the steps of a flow are issued in the order authorize,
\* dispatch, usage update, insert.
C9_Original ==
  \A t \in Tabs :
    IsPrefix(calls[t], << "authorize", route(flow[t].data.type), "update", "insert" >>)

\* C9 amended: the steps of a flow are issued in the order authorize, dispatch,
\* insert, usage update, each one only after the one before has settled.
C9_StepOrder ==
  \A t \in Tabs :
    /\ IsPrefix(calls[t], << "authorize", route(flow[t].data.type), "insert", "update" >>)
    /\ AwaitsLastCall(t)

C9_Witness ==
  \E t \in Tabs : calls[t] = << "authorize", "generateImage", "insert", "update" >>

\* C10: a flow issues one insert if its dispatch returned success=true and none
\* otherwise, never more than one, and every row is owned by the submitting user.
C10_OneInsertPerSuccess ==
  /\ \A t \in Tabs :
       /\ Count("insert", calls[t]) <= 1
       /\ Settled(t) =>
            Count("insert", calls[t]) = (IF flow[t].result.success THEN 1 ELSE 0)
       /\ Settled(t) => flow[t].user = user
  /\ \A i \in 1..Len(content_items) : content_items[i].user_id = user

C10_Witness ==
  \E t \in Tabs :
    /\ Settled(t) /\ flow[t].result.success
    /\ pc[t] = "idle"
    /\ flows[t] = 2
    /\ Len(content_items) = 2

\* the insert of view t settles in this step without a new row
InsertFails(t) ==
  pc[t] = "insert" /\ pc'[t] # "insert" /\ content_items' = content_items

\* C11: when the insert into content_items fails after a successful dispatch
\* (error value or rejection), the artifact stays displayed, the failure is
\* logged and no error message is shown to the user.
C11_InsertFailureOnlyLogged ==
  [][\A t \in Tabs :
       InsertFails(t) =>
         /\ generatedImage'[t] = flow[t].result.url
         /\ logged'[t] \cap {"Error saving content:", "Generation error:"} # {}
         /\ alertMsg'[t] = ""]_vars

\* the usage update of view t settles in this step without writing the row
UpdateFails(t) ==
  pc[t] = "update" /\ pc'[t] # "update" /\ dbSub.present /\ usageWrites' = usageWrites

\* C12: when the usage update fails, the failure is logged, the content row
\* and the displayed artifact stay, and no error message is shown to the user.
C12_UpdateFailureOnlyLogged ==
  [][\A t \in Tabs :
       UpdateFails(t) =>
         /\ logged'[t] # logged[t]
         /\ content_items' = content_items
         /\ generatedImage'[t] = flow[t].result.url
         /\ alertMsg'[t] = ""]_vars

\* a pending timeout of view t runs in this step
TimeoutRuns(t) == timer[t] # {} /\ timer'[t] = {}

\* C13 as stated: every burst of edits ends in exactly one refinement call,
\* made with the last text of the burst.
C13_Original ==
  [][\A t \in Tabs :
       (edits[t] > 0 /\ TimeoutRuns(t)) =>
         /\ refineIssued'[t] = refineIssued[t] + 1
         /\ refines'[t] = refines[t] \cup
                            {[gen |-> refineIssued'[t], prompt |-> form[t].prompt]}]_vars

\* C13: at most one timeout is pending and it holds the current text of the
\* input, so an edit has cancelled the timeout of the edit before it; a
\* refinement call is issued only when that timeout runs, with the current
\* text, and it is issued then iff the text is longer than 10 characters.
C13_DebounceCoalesces ==
  /\ [](\A t \in Tabs : Cardinality(timer[t]) <= 1 /\ timer[t] \subseteq {form[t].prompt})
  /\ [][\A t \in Tabs :
          /\ refineIssued'[t] # refineIssued[t] =>
               /\ TimeoutRuns(t)
               /\ refineIssued'[t] = refineIssued[t] + 1
               /\ refines'[t] = refines[t] \cup
                                  {[gen |-> refineIssued'[t], prompt |-> form[t].prompt]}
          /\ TimeoutRuns(t) =>
               (refineIssued'[t] # refineIssued[t] <=> shouldRefine(form[t].prompt))]_vars

\* two prompt edits, one call, made with the text of the second edit
C13_Witness ==
  \E t \in Tabs :
    /\ edits[t] = 2
    /\ [type |-> form[t].type, platform |-> form[t].platform, style |-> form[t].style]
         = [type |-> NoData.type, platform |-> NoData.platform, style |-> NoData.style]
    /\ timer[t] = {}
    /\ refineIssued[t] = 1
    /\ refines[t] = {[gen |-> 1, prompt |-> form[t].prompt]}

\* C14: when the refinement behind the optimized prompt of a flow failed or
\* came back empty (the optimized prompt is then a plain prompt of the form),
\* the text sent to the provider is the one sent had no refinement been
\* attempted, built from the submitted prompt alone.
C14_FallbackSameAsUnrefined ==
  \A t \in Tabs :
    (Dispatched(t) /\ flow[t].optimizedPrompt \in Prompts \ {""}) =>
      flow[t].request = providerRequest(calls[t][2], generationOptions("", flow[t].data))

\* the submitted form is no GenerationRequest: a value outside its enumerated
\* set, or an empty prompt
Malformed(data) ==
  \/ data.type \notin Types
  \/ data.style \notin Styles
  \/ data.platform \notin Platforms
  \/ data.prompt = ""

\* C15: a malformed request is rejected before any external call: its flow
\* never dispatches.
C15_MalformedRejected ==
  \A t \in Tabs : (calls[t] # << >> /\ Malformed(flow[t].data)) => ~Dispatched(t)

\* the dispatcher calls of the last flow of view t
Dispatches(t) == Count("generateImage", calls[t]) + Count("generateVideo", calls[t])

\* C16: a flow makes at most one dispatch call, and while that call is
\* awaited the provider has not answered it before: one attempt, no retry.
C16_NoRetry ==
  \A t \in Tabs :
    /\ Dispatches(t) <= 1
    /\ pc[t] = "dispatch" => flow[t].response = ""
    /\ Settled(t) => Dispatches(t) = 1 /\ flow[t].response # ""

\* a flow whose only provider attempt failed has ended
C16_Witness ==
  \E t \in Tabs :
    /\ Settled(t)
    /\ flow[t].response = "error"
    /\ Dispatches(t) = 1
    /\ pc[t] = "idle"
    /\ alertMsg[t] = "Billing hard limit has been reached"

StartsWith(s, pre) == Len(pre) <= Len(s) /\ SubSeq(s, 1, Len(pre)) = pre

EndsWith(s, post) ==
  Len(post) <= Len(s) /\ SubSeq(s, Len(s) - Len(post) + 1, Len(s)) = post

Contains(s, sub) ==
  \E i \in 1..(Len(s) - Len(sub) + 1) : SubSeq(s, i, i + Len(sub) - 1) = sub

RowInserted(t) == pc[t] = "insert" /\ Len(content_items') = Len(content_items) + 1

NewRow == content_items'[Len(content_items')]

\* C19: the prompt of the row a flow inserts is the prompt the flow handed to
\* the dispatcher: the optimized prompt the submit found, and the prompt as
\* typed when it found none.
C19_PersistedPromptIsDispatched ==
  [][\A t \in Tabs :
       RowInserted(t) =>
         /\ NewRow.prompt = flow[t].options.prompt
         /\ flow[t].optimizedPrompt # "" => NewRow.prompt = flow[t].optimizedPrompt
         /\ flow[t].optimizedPrompt = "" => NewRow.prompt = flow[t].data.prompt]_vars

\* a row whose prompt is the refined text, not the text as typed
C19_Witness ==
  \E i \in 1..Len(content_items) :
    /\ content_items[i].description = "Summer sale poster"
    /\ content_items[i].prompt = "Refined: Summer sale poster"

\* C20: the row a flow inserts has the title "Generated " followed by the
\* content type, and the type, platform and style of the submitted request.
C20_TitleAndSelections ==
  [][\A t \in Tabs :
       RowInserted(t) =>
         /\ NewRow.title = "Generated " \o flow[t].data.type
         /\ NewRow.type = flow[t].data.type
         /\ NewRow.platform = flow[t].data.platform
         /\ NewRow.style = flow[t].data.style]_vars

C20_Witness ==
  \E i \in 1..Len(content_items) :
    /\ content_items[i].title = "Generated video"
    /\ content_items[i].type = "video"
    /\ content_items[i].platform = "twitter"
    /\ content_items[i].style = "surreal"

\* onSubmit of view t takes a step
FlowStep(t) == calls'[t] # calls[t] \/ pc'[t] # pc[t] \/ flow'[t] # flow[t]

\* the dispatch of view t settles in this step with success = false
DispatchFails(t) ==
  pc[t] = "dispatch" /\ flow'[t].response # "" /\ ~flow'[t].result.success

\* C21: no step of onSubmit changes the prompt, the selections or the
\* optimized prompt of its view, and the step in which a dispatch fails shows
\* a message and leaves the view ready for another submit.
C21_InputPreservedOnFailure ==
  [][\A t \in Tabs :
       /\ FlowStep(t) =>
            /\ form'[t] = form[t]
            /\ optimizedPrompt'[t] = optimizedPrompt[t]
       /\ DispatchFails(t) =>
            /\ alertMsg'[t] # ""
            /\ pc'[t] = "idle"
            /\ ~isGenerating'[t]]_vars

\* a failed flow has ended and the view holds what was submitted, refined text included
C21_Witness ==
  \E t \in Tabs :
    /\ Settled(t) /\ ~flow[t].result.success
    /\ pc[t] = "idle"
    /\ alertMsg[t] = "Failed to generate image"
    /\ form[t] = flow[t].data
    /\ optimizedPrompt[t] = flow[t].optimizedPrompt
    /\ optimizedPrompt[t] = "Refined: " \o form[t].prompt

\* C22: a refinement call is issued only in a step in which the timeout of a
\* prompt longer than 10 characters runs, and every call in flight was made
\* with such a prompt: none for a prompt of 10 characters or fewer.
C22_RefineOnlyLongPrompts ==
  /\ [](\A t \in Tabs : \A c \in refines[t] : Len(c.prompt) > 10)
  /\ [][\A t \in Tabs :
          refineIssued'[t] # refineIssued[t] =>
            /\ TimeoutRuns(t)
            /\ Len(form[t].prompt) > 10
            /\ \A c \in refines'[t] \ refines[t] : c.prompt = form[t].prompt]_vars

\* the timeout of a long prompt ran with a call, then the one of a prompt of
\* exactly 10 characters ran without
C22_Witness ==
  \E t \in Tabs :
    /\ edits[t] = 2
    /\ form[t].prompt = "ten chars!"
    /\ timer[t] = {}
    /\ refineIssued[t] = 1

\* C23: with one view, whose flows run one after another, no flow has
\* dispatched that started while the persisted current_usage was at or above
\* usage_limit.
C23_NoDispatchAtLimit ==
  \A t \in Tabs :
    (Dispatched(t) /\ flow[t].usageBefore.present) =>
      flow[t].usageBefore.current_usage < flow[t].usageBefore.usage_limit

\* C24: with two views on a row that started at usage 0, the generations
\* recorded in content_items, each from an authorized dispatch, exceed
\* usage_limit by at most one.
C24_OvershootAtMostOne ==
  Len(content_items) <= dbSub.usage_limit + 1

\* onSubmit of view t is between its first and its last await
InFlight(t) == pc[t] \in {"dispatch", "insert", "update"}

\* C25: isGenerating is true exactly while an authorized flow is between its
\* first and last await; a flow starts only in a view whose isGenerating is
\* false; and once its awaited calls return, a started flow sets isGenerating
\* back to false, whatever its exit path.
C25_SingleFlight ==
  /\ [](\A t \in Tabs : isGenerating[t] <=> InFlight(t))
  /\ [][\A t \in Tabs : flows'[t] # flows[t] => ~isGenerating[t] /\ ~InFlight(t)]_vars
  /\ \A t \in Tabs : isGenerating[t] ~> ~isGenerating[t]

\* a second flow of the view has ended through the catch block, the button is enabled again
C25_Witness ==
  \E t \in Tabs :
    /\ flows[t] = 2
    /\ pc[t] = "idle"
    /\ ~isGenerating[t]
    /\ alertMsg[t] = ExceptionMessage
    /\ Len(content_items) = 1

\* C26: the optimized prompt a dispatched flow closed over, when it has one,
\* is a result of refining the prompt that flow submitted.
C26_OptimizedFromSubmittedPrompt ==
  \A t \in Tabs :
    (Dispatched(t) /\ flow[t].optimizedPrompt # "") =>
      flow[t].optimizedPrompt \in
        {optimizeTextPrompt(flow[t].data.prompt, kind) : kind \in CompletionKinds}

\* the insert of view t resolves in this step, with a row or with an error value
InsertResolves(t) ==
  pc[t] = "insert" /\ pc'[t] # "insert" /\ alertMsg'[t] # ExceptionMessage

\* C27: when the insert resolves, with or without an error value, the usage
\* update is issued next; a flow issues it at most once, and exactly once when
\* its dispatch succeeded and its store calls resolved.
C27_UpdateDespiteInsertError ==
  /\ [](\A t \in Tabs :
          /\ Count("update", calls[t]) <= 1
          /\ (Settled(t) /\ resultOk(flow[t].result) /\ pc[t] = "idle"
                /\ alertMsg[t] # ExceptionMessage) => Count("update", calls[t]) = 1)
  /\ [][\A t \in Tabs :
          InsertResolves(t) =>
            /\ pc'[t] = "update"
            /\ calls'[t] = Append(calls[t], "update")]_vars

\* the insert returned an error value and the usage was written all the same
C27_Witness ==
  \E t \in Tabs :
    /\ pc[t] = "idle"
    /\ flows[t] = 1
    /\ "Error saving content:" \in logged[t]
    /\ content_items = << >>
    /\ usageWrites = 1
    /\ Count("update", calls[t]) = 1

\* C28: a protected page is on screen only when auth is loaded and a user is
\* present; on a protected path a loading auth shows the spinner alone; a
\* protected path is left for /login when there is no user, and /billing for
\* /pricing when the plan is 'free'.
C28_ProtectedRouteGuards ==
  /\ [](/\ screen \in {element(path) : path \in ProtectedPaths} =>
            ~auth.loading /\ auth.user # ""
        /\ (location \in ProtectedPaths /\ auth.loading) => screen = "spinner"
        /\ (location \in ProtectedPaths /\ ~auth.loading) =>
            auth.user # "" /\ screen = element(location)
        /\ location = "/billing" => (auth.loading \/ auth.plan # "free"))
  /\ [][(location \in ProtectedPaths /\ ~auth'.loading) =>
          /\ auth'.user = "" => location' = "/login" /\ from' = location
          /\ (auth'.user # "" /\ location = "/billing" /\ auth'.plan = "free") =>
               location' = "/pricing"]_vars

\* the auth context finished loading without a user and /library was left for /login
C28_Witness ==
  /\ location = "/login"
  /\ from = "/library"
  /\ screen = "Login"
  /\ ~auth.loading
  /\ auth.user = ""

\* C29: the editor is never in create mode and in edit mode at once, and the
\* kit being edited, if any, is in the brandKits list.
C29_EditorConsistent ==
  /\ ~(isCreating /\ editingKit # 0)
  /\ editingKit # 0 => editingKit \in Range(brandKits)

\* C30: contentItems changes only when a confirmed delete returns from the
\* store without error, by losing that item; a delete that is declined or
\* fails leaves contentItems and selectedItem as they are; and selectedItem
\* is null or an item of contentItems.
C30_SelectedItemPresent ==
  /\ [](selectedItem = 0 \/ selectedItem \in Range(contentItems))
  /\ [][/\ contentItems' # contentItems =>
             \E c \in deleteCalls \ deleteCalls' :
               contentItems' = without(contentItems, c.item)
        /\ (deleteCalls' # deleteCalls /\ contentItems' = contentItems) =>
             (selectedItem' = selectedItem
                \/ \E c \in deleteCalls \ deleteCalls' : c.item \notin Range(contentItems))]_vars

====
